---- MODULE Spec2Model ----
(***************************************************************************)
(* Model of src/iko.py: the radar scene model of class ИКО (target state,  *)
(* history trail, kinematics tick loop on the Tk timer, signature model,   *)
(* coastline generator).                                                   *)
(*                                                                         *)
(* Fixed-point units.  Python floats are modelled as scaled integers:      *)
(*   ranges and distances   1/720 nautical mile  (Mile = 720)              *)
(*   angles                 whole degrees                                  *)
(*   EPR                    1/100 m^2                                      *)
(*   sin/cos/log10/factors  1/10000            (TrigScale)                 *)
(* Divisions round to the nearest unit.                                    *)
(***************************************************************************)
EXTENDS Integers, Sequences, FiniteSets, TLC

\* ---------------------------------------------------------------- bounds
\* tick bodies run in one behaviour of Spec and SpecKin
MaxTicks == 1
\* tick bodies run in one behaviour of SpecMove
MaxMoveTicks == 3
\* callbacks pending on the Tk timer at one time
MaxPending == 2
\* largest value of the trail-length slider explored (slider: 0..100);
\* it also bounds the number of history entries explored
MaxTrail == 1
\* random.random() is explored in DrawQ-ths of the unit interval [0, 1)
DrawQ == 8
\* seeds of the random stream explored for generate_coastline
MaxSeed == 15
\* SpecRender: trail entries on the canvas
MaxDrawn == 2
\* SpecPanel: controls of the panel that are off their start-up setting
MaxEdited == 2
\* SpecCentre: tick bodies run in one behaviour
MaxCentreTicks == 240
\* SpecExit: tick bodies run in one behaviour
MaxExitTicks == 480

\* ------------------------------------------------------------- constants
\* 0.1 nm, the range deadband of add_to_history, in range units
DeadbandRange == 72
\* 1.0 degree, the bearing deadband of add_to_history
DeadbandBearing == 1
Mile == 10 * DeadbandRange
\* self.range_scale = 24.0
range_scale == 24 * Mile
\* self.trail_length = 30 and deque(maxlen=30) at construction
InitTrailLength == 30
\* number of coastline vertices
segments == 40

Abs(x) == IF x < 0 THEN -x ELSE x
Min(a, b) == IF a < b THEN a ELSE b
Max(a, b) == IF a > b THEN a ELSE b

\* a / b rounded to the nearest integer (b > 0), as a float division
\* followed by the conversion to fixed point
RDiv(a, b) == IF a >= 0 THEN (2 * a + b) \div (2 * b)
                        ELSE -((2 * (-a) + b) \div (2 * b))

\* math.sin of 0..90 degrees, scaled by TrigScale
SinTable ==
  << 0, 175, 349, 523, 698, 872, 1045, 1219, 1392, 1564, 1736, 1908, 2079,
     2250, 2419, 2588, 2756, 2924, 3090, 3256, 3420, 3584, 3746, 3907, 4067,
     4226, 4384, 4540, 4695, 4848, 5000, 5150, 5299, 5446, 5592, 5736, 5878,
     6018, 6157, 6293, 6428, 6561, 6691, 6820, 6947, 7071, 7193, 7314, 7431,
     7547, 7660, 7771, 7880, 7986, 8090, 8192, 8290, 8387, 8480, 8572, 8660,
     8746, 8829, 8910, 8988, 9063, 9135, 9205, 9272, 9336, 9397, 9455, 9511,
     9563, 9613, 9659, 9703, 9744, 9781, 9816, 9848, 9877, 9903, 9925, 9945,
     9962, 9976, 9986, 9994, 9998, 10000 >>

\* 1.0 as a fixed-point fraction: sin 90 degrees
TrigScale == SinTable[91]

\* math.sin(math.radians(d)) for any whole degree d
SinDeg(d) ==
  LET a == d % 360 IN
  IF a <= 90 THEN SinTable[a + 1]
  ELSE IF a <= 180 THEN SinTable[180 - a + 1]
  ELSE IF a <= 270 THEN -SinTable[a - 180 + 1]
  ELSE -SinTable[360 - a + 1]

\* math.cos(math.radians(d))
CosDeg(d) == SinDeg(d + 90)

RECURSIVE SqrtSearch(_, _, _)
SqrtSearch(n, lo, hi) ==
  IF lo >= hi THEN lo
  ELSE LET mid == (lo + hi + 1) \div 2 IN
       IF mid * mid <= n THEN SqrtSearch(n, mid, hi)
                         ELSE SqrtSearch(n, lo, mid - 1)

\* math.sqrt, rounded to the nearest unit
Sqrt(n) ==
  LET r == SqrtSearch(n, 0, 46340) IN
  IF n - r * r > r THEN r + 1 ELSE r

RECURSIVE AtanSearch(_, _, _, _)
\* the largest d in lo..hi whose direction is not past (p, q)
AtanSearch(p, q, lo, hi) ==
  IF lo >= hi THEN lo
  ELSE LET mid == (lo + hi + 1) \div 2 IN
       IF p * CosDeg(mid) - q * SinDeg(mid) >= 0 THEN AtanSearch(p, q, mid, hi)
                                                 ELSE AtanSearch(p, q, lo, mid - 1)

\* atan of p/q in the first quadrant (p, q >= 0, not both 0), to the
\* nearest whole degree
AtanQ(p, q) ==
  LET cross(d) == p * CosDeg(d) - q * SinDeg(d)
      lo == AtanSearch(p, q, 0, 90)
  IN IF lo < 90 /\ -cross(lo + 1) < cross(lo) THEN lo + 1 ELSE lo

\* math.degrees(math.atan2(x, y)) % 360
Atan2Deg(x, y) ==
  IF x = 0 /\ y = 0 THEN 0
  ELSE IF x >= 0 /\ y >= 0 THEN AtanQ(x, y) % 360
  ELSE IF x >= 0 THEN 180 - AtanQ(x, -y)
  ELSE IF y < 0 THEN 180 + AtanQ(-x, -y)
  ELSE (360 - AtanQ(-x, y)) % 360

\* math.log10, scaled by TrigScale, of v/100 for v = 100, 110, ... (the
\* values between two entries are interpolated linearly)
LogX == << 100, 110, 150, 200, 300, 500, 800, 1100, 1300 >>
LogY == << 0, 414, 1761, 3010, 4771, 6990, 9031, 10414, 11139 >>

\* math.log10(v / 100), v >= 100 in 1/100
Log10(v) ==
  LET k == IF v >= LogX[Len(LogX)] THEN Len(LogX) - 1
           ELSE CHOOSE i \in 1..(Len(LogX) - 1) : LogX[i] <= v /\ v < LogX[i + 1]
  IN LogY[k] + RDiv((LogY[k + 1] - LogY[k]) * (v - LogX[k]), LogX[k + 1] - LogX[k])

\* ------------------------------------------------------ inputs explored
RandomUnit == {0, DrawQ - 1}
\* random.uniform(a, b) = a + (b - a) * random(), random() = q / DrawQ
Uniform(a, b, q) == a + ((b - a) * q) \div DrawQ
\* random.randint(a, b)
RandInt(a, b, q) == a + ((b - a + 1) * q) \div DrawQ
\* the n-th value of random.random() after seeding: seed fixes the first
\* value and the stride of the stream
Rnd(seed, n) == ((seed % DrawQ) + n * (seed \div DrawQ)) % DrawQ
Seeds == 0..MaxSeed

\* values of the bearing slider (from_=0, to=360) explored
BearingEdits == {41, 360}
\* values of the range slider (from_=1, to=range_scale-2) explored
RangeEdits == {8 * Mile, 8 * Mile + DeadbandRange}
\* values of the EPR slider (from_=0.1, to=12.0) explored, in 1/100 m^2
EprEdits == {1200}
\* values of the course and speed sliders explored (degrees, knots)
CourseEdits == {0}
SpeedEdits == {30}
TrailEdits == 0..MaxTrail
\* values of the aspect, length, width and clutter sliders explored
\* (degrees, metres, metres, percent)
AspectEdits == {30}
LengthEdits == {50}
WidthEdits == {10}
ClutterEdits == {60}
\* places of the try block of simulate_movement where a call may raise
FaultPoints == {"none", "compute", "status", "widgets", "draw", "after"}

VARIABLES
  target_bearing,      \* degrees
  target_range,        \* range units
  target_epr,          \* 1/100 m^2
  aspect_angle,        \* degrees
  target_length,       \* metres
  target_width,        \* metres
  target_number,
  target_history,      \* items of the deque, newest first: <<bearing, range, epr>>
  history_maxlen,      \* maxlen of the deque
  trail_length,
  coastline_points,    \* <<bearing in 1/100 degree, range>> per vertex
  target_moving,
  target_course,
  target_speed,
  simulation_interval, \* ms
  info_var,            \* status line
  timers,              \* callbacks pending in root.after, oldest first; each
                       \* entry: has stop_movement run since it was scheduled
  blip,                \* brightness of the target mark on the canvas
  ticks,               \* number of tick bodies run so far
  last,                \* what the last run of simulate_movement did
  show_coastline,
  show_trails,
  show_target_form,
  clutter_intensity,   \* percent
  target_course_current,
  target_speed_current,
  frame                \* the items on the canvas, in the order they were drawn

vars == << target_bearing, target_range, target_epr, aspect_angle,
           target_length, target_width, target_number, target_history,
           history_maxlen, trail_length, coastline_points, target_moving,
           target_course, target_speed, simulation_interval, info_var,
           timers, blip, ticks, last, show_coastline, show_trails,
           show_target_form, clutter_intensity, target_course_current,
           target_speed_current, frame >>

trailVars == << target_history, history_maxlen, trail_length >>
moveVars == << target_moving, target_course, target_speed,
               simulation_interval, info_var, timers, ticks >>
showVars == << show_coastline, show_trails, show_target_form,
               clutter_intensity >>
activeVars == << target_course_current, target_speed_current >>

\* the record of an operation that is not a run of simulate_movement
NoTick == [op |-> "op", armed |-> FALSE, stale |-> FALSE, cause |-> "none"]

\* ------------------------------------------------------- signature model
\* calculate_target_brightness without the upper clamp
calculate_target_brightness_open(epr_in, aspect_in, range_in) ==
  LET epr_factor == Log10(Max(1, epr_in) + 100)
      aspect == Max(0, Min(TrigScale, Abs(SinDeg(aspect_in))))
      range_factor == Max(1200, TrigScale - RDiv(range_in * 6000, range_scale))
  IN Max(500, 1200 + RDiv(RDiv(RDiv(epr_factor * aspect, TrigScale)
                                 * range_factor, TrigScale) * 15, 10))

\* calculate_target_brightness, scaled by TrigScale
calculate_target_brightness(epr_in, aspect_in, range_in) ==
  LET epr == Max(1, epr_in)
      epr_factor == Log10(epr + 100)
      aspect == Max(0, Min(TrigScale, Abs(SinDeg(aspect_in))))
      range_factor == Max(1200, TrigScale - RDiv(range_in * 6000, range_scale))
      base == 1200
      brightness == base + RDiv(RDiv(RDiv(epr_factor * aspect, TrigScale)
                                       * range_factor, TrigScale) * 15, 10)
  IN Max(500, Min(TrigScale, brightness))

\* ---------------------------------------------------------- history trail
\* appendleft on a full deque that gives up the entry next to the new one
AppendLeftDropSecond(h, m, x) ==
  IF m = 0 THEN << >>
  ELSE IF Len(h) < m THEN <<x>> \o h
  ELSE <<x>> \o Tail(h)

\* appendleft on a deque created without maxlen
AppendLeftUnbounded(h, m, x) == <<x>> \o h

\* deque.appendleft on a deque of maxlen m
AppendLeft(h, m, x) == SubSeq(<<x>> \o h, 1, Min(Len(h) + 1, m))

\* add_to_history with a gate that is open on the edge of the deadband
add_to_history_edge(h, m, b, r, e) ==
  IF Len(h) = 0 THEN AppendLeft(h, m, <<b, r, e>>)
  ELSE IF Abs(b - h[1][1]) >= DeadbandBearing
          \/ Abs(r - h[1][2]) >= DeadbandRange
       THEN AppendLeft(h, m, <<b, r, e>>)
       ELSE h

\* add_to_history with a gate that also looks at the EPR
add_to_history_epr(h, m, b, r, e) ==
  IF Len(h) = 0 THEN AppendLeft(h, m, <<b, r, e>>)
  ELSE IF Abs(b - h[1][1]) > DeadbandBearing
          \/ Abs(r - h[1][2]) > DeadbandRange
          \/ e # h[1][3]
       THEN AppendLeft(h, m, <<b, r, e>>)
       ELSE h

\* add_to_history: the trail after the call
add_to_history(h, m, b, r, e) ==
  IF Len(h) = 0 THEN AppendLeft(h, m, <<b, r, e>>)
  ELSE LET last_bearing == h[1][1]
           last_range == h[1][2]
       IN IF Abs(b - last_bearing) > DeadbandBearing
             \/ Abs(r - last_range) > DeadbandRange
          THEN AppendLeft(h, m, <<b, r, e>>)
          ELSE h

\* ------------------------------------------------------------- coastline
\* the vertices before smoothing; the draws are numbered in program order
coast_points(bearing, seed) ==
  LET base_dir == (bearing + 120 + Uniform(-20, 20, Rnd(seed, 0))) % 360
      base_distance == (range_scale * 75) \div 100
      angle(i) == (base_dir - 60) * 100 + RDiv(i * 12000, segments - 1)
      base_range(i) ==
        base_distance
        + RDiv(SinDeg(i * 8 + Uniform(-10, 10, Rnd(seed, 2 * i + 1)))
                 * ((range_scale * 15) \div 100), TrigScale)
      jitter(i) == Uniform(-((range_scale * 5) \div 100),
                           (range_scale * 5) \div 100, Rnd(seed, 2 * i + 2))
      r(i) == Max(range_scale \div 2,
                  Min(range_scale - Mile, base_range(i) + jitter(i)))
  IN [k \in 1..segments |-> << angle(k - 1) % 36000, r(k - 1) >>]

\* the moving average with the centre sample left out of the count
smooth_points_cnt(points) ==
  LET n == Len(points)
      acc(i) == points[((i - 2) % n) + 1][2] + points[((i - 1) % n) + 1][2]
                + points[(i % n) + 1][2] + points[((i + 1) % n) + 1][2]
                + points[((i + 2) % n) + 1][2]
  IN [k \in 1..n |-> << points[k][1], RDiv(acc(k - 1), 4) >>]

\* the 5-sample circular moving average of the ranges
smooth_points(points) ==
  LET n == Len(points)
      acc(i) == points[((i - 2) % n) + 1][2] + points[((i - 1) % n) + 1][2]
                + points[(i % n) + 1][2] + points[((i + 1) % n) + 1][2]
                + points[((i + 2) % n) + 1][2]
      cnt == 5
  IN [k \in 1..n |-> << points[k][1], RDiv(acc(k - 1), cnt) >>]

generate_coastline(bearing, seed) == smooth_points(coast_points(bearing, seed))

\* ------------------------------------------------------------ kinematics
\* distance_moved = target_speed * time_step / 3600.0, in range units
distance_moved(speed, interval) == RDiv(speed * interval, 3600000 \div Mile)

\* new_x in the mathematical convention (angle from the x axis)
new_x_math(b, r, c, d) == RDiv(r * CosDeg(b) + d * CosDeg(c), TrigScale)

new_x(b, r, c, d) == RDiv(r * SinDeg(b) + d * SinDeg(c), TrigScale)
new_y(b, r, c, d) == RDiv(r * CosDeg(b) + d * CosDeg(c), TrigScale)

new_range(b, r, c, d) ==
  Sqrt(new_x(b, r, c, d) * new_x(b, r, c, d) + new_y(b, r, c, d) * new_y(b, r, c, d))

new_bearing(b, r, c, d) == Atan2Deg(new_x(b, r, c, d), new_y(b, r, c, d))

\* an except branch that reports the error and leaves the state Moving
TickFaultNoStop(b, r, h, drawn) ==
  [bearing |-> b, range |-> r, history |-> h, moving |-> TRUE,
   info |-> "error", armed |-> FALSE, drawn |-> drawn, cause |-> "fault"]

\* the except branch of simulate_movement with the state as it is when the
\* call raises: info_var is set to the error text, then stop_movement()
\* overwrites it
TickFault(b, r, h, drawn) ==
  [bearing |-> b, range |-> r, history |-> h, moving |-> FALSE,
   info |-> "stopped", armed |-> FALSE, drawn |-> drawn, cause |-> "fault"]

\* simulate_movement that reports the scope edge and keeps running: the
\* position is held, the state stays Moving and the callback is registered
simulate_movement_hold(mv, info, fault) ==
  LET d  == distance_moved(target_speed, simulation_interval)
      nr == new_range(target_bearing, target_range, target_course, d)
      nb == new_bearing(target_bearing, target_range, target_course, d)
      h1 == add_to_history(target_history, history_maxlen, nb, nr, target_epr)
  IN
  IF ~mv THEN
    [bearing |-> target_bearing, range |-> target_range,
     history |-> target_history, moving |-> mv, info |-> info,
     armed |-> FALSE, drawn |-> FALSE, cause |-> "idle"]
  ELSE IF nr >= range_scale - Mile \div 2 THEN
    [bearing |-> target_bearing, range |-> target_range,
     history |-> target_history, moving |-> TRUE, info |-> "left_scope",
     armed |-> TRUE, drawn |-> FALSE, cause |-> "exit"]
  ELSE
    [bearing |-> nb, range |-> nr, history |-> h1, moving |-> mv,
     info |-> info, armed |-> mv, drawn |-> TRUE, cause |-> "commit"]

\* simulate_movement without the test of target_moving on entry
simulate_movement_unguarded(mv, info, fault) ==
  LET d  == distance_moved(target_speed, simulation_interval)
      nr == new_range(target_bearing, target_range, target_course, d)
      nb == new_bearing(target_bearing, target_range, target_course, d)
      h1 == add_to_history(target_history, history_maxlen, nb, nr, target_epr)
  IN
  IF fault = "compute" THEN
    TickFault(target_bearing, target_range, target_history, FALSE)
  ELSE IF nr >= range_scale - Mile \div 2 THEN
    [bearing |-> target_bearing, range |-> target_range,
     history |-> target_history, moving |-> FALSE, info |-> "stopped",
     armed |-> FALSE, drawn |-> FALSE, cause |-> "exit"]
  ELSE IF fault = "widgets" THEN TickFault(nb, nr, target_history, FALSE)
  ELSE IF fault = "draw" THEN TickFault(nb, nr, h1, FALSE)
  ELSE IF fault = "after" THEN TickFault(nb, nr, h1, TRUE)
  ELSE
    [bearing |-> nb, range |-> nr, history |-> h1, moving |-> mv,
     info |-> info, armed |-> mv, drawn |-> TRUE, cause |-> "commit"]

\* simulate_movement with the scope test placed after the commit
simulate_movement_late(mv, info, fault) ==
  LET d  == distance_moved(target_speed, simulation_interval)
      nr == new_range(target_bearing, target_range, target_course, d)
      nb == new_bearing(target_bearing, target_range, target_course, d)
      h1 == add_to_history(target_history, history_maxlen, nb, nr, target_epr)
  IN
  IF ~mv THEN
    [bearing |-> target_bearing, range |-> target_range,
     history |-> target_history, moving |-> mv, info |-> info,
     armed |-> FALSE, drawn |-> FALSE, cause |-> "idle"]
  ELSE IF fault = "compute" THEN
    TickFault(target_bearing, target_range, target_history, FALSE)
  ELSE IF fault = "widgets" THEN TickFault(nb, nr, target_history, FALSE)
  ELSE IF fault = "draw" THEN TickFault(nb, nr, h1, FALSE)
  ELSE IF nr >= range_scale - Mile \div 2 THEN
    [bearing |-> nb, range |-> nr, history |-> h1, moving |-> FALSE,
     info |-> "stopped", armed |-> FALSE, drawn |-> TRUE, cause |-> "exit"]
  ELSE IF fault = "after" THEN TickFault(nb, nr, h1, TRUE)
  ELSE
    [bearing |-> nb, range |-> nr, history |-> h1, moving |-> mv,
     info |-> info, armed |-> mv, drawn |-> TRUE, cause |-> "commit"]

\* simulate_movement entered with target_moving = mv and status info;
\* fault is the place where a call raises ("none": no call raises).
\* The result: the fields the run leaves, whether it armed the timer
\* (armed), whether it redrew the scope (drawn) and how it ended (cause).
simulate_movement(mv, info, fault) ==
  LET d  == distance_moved(target_speed, simulation_interval)
      nr == new_range(target_bearing, target_range, target_course, d)
      nb == new_bearing(target_bearing, target_range, target_course, d)
      h1 == add_to_history(target_history, history_maxlen, nb, nr, target_epr)
  IN
  IF ~mv THEN
    [bearing |-> target_bearing, range |-> target_range,
     history |-> target_history, moving |-> mv, info |-> info,
     armed |-> FALSE, drawn |-> FALSE, cause |-> "idle"]
  ELSE IF fault = "compute" THEN
    TickFault(target_bearing, target_range, target_history, FALSE)
  ELSE IF nr >= range_scale - Mile \div 2 THEN
    IF fault = "status" THEN
      TickFault(target_bearing, target_range, target_history, FALSE)
    ELSE
      \* info_var.set(<left scope>); stop_movement(); return
      [bearing |-> target_bearing, range |-> target_range,
       history |-> target_history, moving |-> FALSE, info |-> "stopped",
       armed |-> FALSE, drawn |-> FALSE, cause |-> "exit"]
  ELSE IF fault = "widgets" THEN TickFault(nb, nr, target_history, FALSE)
  ELSE IF fault = "draw" THEN TickFault(nb, nr, h1, FALSE)
  ELSE IF fault = "after" THEN TickFault(nb, nr, h1, TRUE)
  ELSE
    [bearing |-> nb, range |-> nr, history |-> h1, moving |-> mv,
     info |-> info, armed |-> mv, drawn |-> TRUE, cause |-> "commit"]

\* ----------------------------------------------------------------- render
\* one canvas item and the values it shows
Item(layer, shows) == [layer |-> layer, shows |-> shows]

\* draw_target_trails: nothing for fewer than two entries, else the segments
\* between neighbours and then the points, both in the order of the deque
draw_target_trails(h) ==
  IF Len(h) < 2 THEN << >>
  ELSE [i \in 1..(Len(h) - 1) |-> Item("trail_line", h[i])]
       \o [i \in 1..Len(h) |-> Item("trail_point", h[i])]

\* draw_coastline: nothing without points
draw_coastline(points) ==
  IF points = << >> THEN << >> ELSE << Item("coastline", << >>) >>

\* a render that draws the target before the trail
Render_target_first(sc, st, sf, points, h, pos, form) ==
  << Item("grid", << >>), Item("range_rings", << >>),
     Item("bearing_marks", << >>), Item("clutter", << >>) >>
  \o (IF sc THEN draw_coastline(points) ELSE << >>)
  \o << Item("target", pos) >>
  \o (IF st THEN draw_target_trails(h) ELSE << >>)
  \o (IF sf THEN << Item("cursor", pos), Item("form", form) >> ELSE << >>)

\* the items one run of draw_radar_display puts on the cleared canvas; pos is
\* <<bearing, range>> of the target and form the lines of its data block
Render(sc, st, sf, points, h, pos, form) ==
  << Item("grid", << >>), Item("range_rings", << >>),
     Item("bearing_marks", << >>), Item("clutter", << >>) >>
  \o (IF sc THEN draw_coastline(points) ELSE << >>)
  \o (IF st THEN draw_target_trails(h) ELSE << >>)
  \o << Item("target", pos) >>
  \o (IF sf THEN << Item("cursor", pos), Item("form", form) >> ELSE << >>)

\* stop_movement() runs: every pending callback was scheduled before a stop
MarkStale(q) == [i \in 1..Len(q) |-> TRUE]

\* one run of simulate_movement as a step; pend is the timer queue on
\* entry and stale tells whether the run is a callback scheduled before a stop
RunTick(mv, info, pend, fault, stale) ==
  LET t == simulate_movement(mv, info, fault) IN
  /\ target_bearing' = t.bearing
  /\ target_range' = t.range
  /\ target_history' = t.history
  /\ target_moving' = t.moving
  /\ info_var' = t.info
  /\ timers' = IF t.armed THEN Append(pend, FALSE)
               ELSE IF t.cause \in {"exit", "fault"} THEN MarkStale(pend)
               ELSE pend
  /\ blip' = IF t.drawn
             THEN calculate_target_brightness(target_epr, aspect_angle, t.range)
             ELSE blip
  /\ ticks' = IF mv THEN ticks + 1 ELSE ticks
  /\ last' = [op |-> "tick", armed |-> t.armed, stale |-> stale, cause |-> t.cause]
  /\ frame' = IF t.drawn
              THEN Render(show_coastline, show_trails, show_target_form,
                          coastline_points, t.history, << t.bearing, t.range >>,
                          << target_number, t.bearing, t.range,
                             target_course_current', target_speed_current' >>)
              ELSE frame

\* draw_radar_display: the target mark is redrawn from the new state
draw_radar_display ==
  /\ blip' = calculate_target_brightness(target_epr', aspect_angle', target_range')
  /\ frame' = Render(show_coastline', show_trails', show_target_form',
                     coastline_points', target_history',
                     << target_bearing', target_range' >>,
                     << target_number', target_bearing', target_range',
                        target_course_current', target_speed_current' >>)

\* ------------------------------------------------------------------ Init
\* the state __init__ leaves when generate_coastline draws stream seed
Constructed(seed) ==
  /\ target_range = 8 * Mile
  /\ target_bearing = 40
  /\ aspect_angle = 70
  /\ target_epr = 100
  /\ target_length = 30
  /\ target_width = 7
  /\ target_number = 1
  /\ target_history = << >>
  /\ history_maxlen = InitTrailLength
  /\ trail_length = InitTrailLength
  /\ coastline_points = generate_coastline(40, seed)
  /\ target_moving = FALSE
  /\ target_course = 45
  /\ target_speed = 10
  /\ simulation_interval = 500
  /\ info_var = "ready"
  /\ timers = << >>
  /\ blip = calculate_target_brightness(100, 70, 8 * Mile)
  /\ ticks = 0
  /\ last = NoTick
  /\ show_coastline = TRUE
  /\ show_trails = TRUE
  /\ show_target_form = FALSE
  /\ clutter_intensity = 45
  /\ target_course_current = 45
  /\ target_speed_current = 10
  /\ frame = Render(TRUE, TRUE, FALSE, coastline_points, << >>,
                    << 40, 8 * Mile >>, << 1, 40, 8 * Mile, 45, 10 >>)

Init == Constructed(0)

\* ------------------------------------------------------------- handlers
on_bearing_change(value) ==
  /\ target_bearing' = value
  /\ target_history' = add_to_history(target_history, history_maxlen,
                                      value, target_range, target_epr)
  /\ last' = NoTick
  /\ UNCHANGED << target_range, target_epr, aspect_angle, target_length,
                  target_width, target_number, history_maxlen, trail_length,
                  coastline_points, showVars, activeVars, moveVars >>
  /\ draw_radar_display

on_range_change(value) ==
  /\ target_range' = value
  /\ target_history' = add_to_history(target_history, history_maxlen,
                                      target_bearing, value, target_epr)
  /\ last' = NoTick
  /\ UNCHANGED << target_bearing, target_epr, aspect_angle, target_length,
                  target_width, target_number, history_maxlen, trail_length,
                  coastline_points, showVars, activeVars, moveVars >>
  /\ draw_radar_display

on_aspect_change(value) ==
  /\ aspect_angle' = value
  /\ last' = NoTick
  /\ UNCHANGED << target_bearing, target_range, target_epr, target_length,
                  target_width, target_number, trailVars, coastline_points, showVars, activeVars,
                  moveVars >>
  /\ draw_radar_display

on_epr_change(value) ==
  /\ target_epr' = value
  /\ target_history' = add_to_history(target_history, history_maxlen,
                                      target_bearing, target_range, value)
  /\ last' = NoTick
  /\ UNCHANGED << target_bearing, target_range, aspect_angle, target_length,
                  target_width, target_number, history_maxlen, trail_length,
                  coastline_points, showVars, activeVars, moveVars >>
  /\ draw_radar_display

on_clutter_change(value) ==
  /\ clutter_intensity' = value
  /\ last' = NoTick
  /\ UNCHANGED << target_bearing, target_range, target_epr, aspect_angle,
                  target_length, target_width, target_number, trailVars,
                  coastline_points, moveVars, show_coastline, show_trails,
                  show_target_form, activeVars >>
  /\ draw_radar_display

on_length_change(value) ==
  /\ target_length' = value
  /\ last' = NoTick
  /\ UNCHANGED << target_bearing, target_range, target_epr, aspect_angle,
                  target_width, target_number, trailVars, coastline_points,
                  moveVars, showVars, activeVars >>
  /\ draw_radar_display

on_width_change(value) ==
  /\ target_width' = value
  /\ last' = NoTick
  /\ UNCHANGED << target_bearing, target_range, target_epr, aspect_angle,
                  target_length, target_number, trailVars, coastline_points,
                  moveVars, showVars, activeVars >>
  /\ draw_radar_display

\* on is what the switch reads after the click
on_trails_switch_change(on) ==
  /\ show_trails' = on
  /\ last' = NoTick
  /\ UNCHANGED << target_bearing, target_range, target_epr, aspect_angle,
                  target_length, target_width, target_number, trailVars,
                  coastline_points, moveVars, show_coastline,
                  show_target_form, clutter_intensity, activeVars >>
  /\ draw_radar_display

\* a trail-length change that keeps the entries the new bound has room for
on_trail_length_change_keep(value) ==
  /\ trail_length' = value
  /\ history_maxlen' = value
  /\ target_history' = SubSeq(target_history, 1, Min(Len(target_history), value))
  /\ last' = NoTick
  /\ UNCHANGED << target_bearing, target_range, target_epr, aspect_angle,
                  target_length, target_width, target_number,
                  coastline_points, showVars, activeVars, moveVars >>
  /\ draw_radar_display

on_trail_length_change(value) ==
  /\ trail_length' = value
  /\ history_maxlen' = value
  /\ target_history' = << >>
  /\ last' = NoTick
  /\ UNCHANGED << target_bearing, target_range, target_epr, aspect_angle,
                  target_length, target_width, target_number,
                  coastline_points, showVars, activeVars, moveVars >>
  /\ draw_radar_display

on_coastline_switch_change(on) ==
  /\ show_coastline' = on
  /\ last' = NoTick
  /\ UNCHANGED << target_bearing, target_range, target_epr, aspect_angle,
                  target_length, target_width, target_number, trailVars,
                  coastline_points, moveVars, show_trails, show_target_form,
                  clutter_intensity, activeVars >>
  /\ draw_radar_display

on_form_switch_change(on) ==
  /\ show_target_form' = on
  /\ last' = NoTick
  /\ UNCHANGED << target_bearing, target_range, target_epr, aspect_angle,
                  target_length, target_width, target_number, trailVars,
                  coastline_points, moveVars, show_coastline, show_trails,
                  clutter_intensity, activeVars >>
  /\ draw_radar_display

on_course_change(value) ==
  /\ target_course' = value
  /\ target_course_current' = value
  /\ last' = NoTick
  /\ UNCHANGED << target_bearing, target_range, target_epr, aspect_angle,
                  target_length, target_width, target_number, trailVars,
                  coastline_points, showVars, target_moving, target_speed,
                  simulation_interval, info_var, timers, blip, ticks,
                  target_speed_current, frame >>

on_speed_change(value) ==
  /\ target_speed' = value
  /\ target_speed_current' = value
  /\ last' = NoTick
  /\ UNCHANGED << target_bearing, target_range, target_epr, aspect_angle,
                  target_length, target_width, target_number, trailVars,
                  coastline_points, showVars, target_moving, target_course,
                  simulation_interval, info_var, timers, blip, ticks,
                  target_course_current, frame >>

\* a redraw that runs the coastline generator again
update_display_regen ==
  /\ coastline_points' = generate_coastline(target_bearing, 1)
  /\ last' = NoTick
  /\ UNCHANGED << target_bearing, target_range, target_epr, aspect_angle,
                  target_length, target_width, target_number, trailVars,
                  moveVars, showVars, activeVars >>
  /\ draw_radar_display

\* update_display, on_resize and on_root_configure: a redraw and nothing else
update_display ==
  /\ last' = NoTick
  /\ UNCHANGED << target_bearing, target_range, target_epr, aspect_angle,
                  target_length, target_width, target_number, trailVars,
                  coastline_points, moveVars, showVars, activeVars >>
  /\ draw_radar_display

random_clutter(q) ==
  /\ clutter_intensity' = Uniform(5, 95, q)
  /\ last' = NoTick
  /\ UNCHANGED << target_bearing, target_range, target_epr, aspect_angle,
                  target_length, target_width, target_number, trailVars,
                  coastline_points, moveVars, show_coastline, show_trails,
                  show_target_form, activeVars >>
  /\ draw_radar_display

\* random_target drawing the EPR over the range of the EPR slider
random_target_slider(qp, qs) ==
  /\ target_bearing' = Uniform(0, 360, qp)
  /\ target_range' = Uniform(2 * Mile, Max(3 * Mile, range_scale - 2 * Mile), qp)
  /\ target_epr' = Uniform(10, 1200, qs)
  /\ target_length' = Uniform(5, 200, qs)
  /\ target_width' = Uniform(2, 50, qs)
  /\ aspect_angle' = Uniform(0, 90, qs)
  /\ target_number' = RandInt(1, 99, qs)
  /\ target_history' = add_to_history(target_history, history_maxlen,
                                      target_bearing', target_range', target_epr')
  /\ last' = NoTick
  /\ UNCHANGED << history_maxlen, trail_length, coastline_points, showVars, activeVars, moveVars >>
  /\ draw_radar_display

\* random_target; qp and qs are the values of random.random() used for the
\* position and for the signature
random_target(qp, qs) ==
  /\ target_bearing' = Uniform(0, 360, qp)
  /\ target_range' = Uniform(2 * Mile, Max(3 * Mile, range_scale - 2 * Mile), qp)
  /\ target_epr' = Uniform(10, 1000, qs)
  /\ target_length' = Uniform(5, 200, qs)
  /\ target_width' = Uniform(2, 50, qs)
  /\ aspect_angle' = Uniform(0, 90, qs)
  /\ target_number' = RandInt(1, 99, qs)
  /\ target_history' = add_to_history(target_history, history_maxlen,
                                      target_bearing', target_range', target_epr')
  /\ last' = NoTick
  /\ UNCHANGED << history_maxlen, trail_length, coastline_points, showVars, activeVars, moveVars >>
  /\ draw_radar_display

new_coastline(seed) ==
  /\ coastline_points' = generate_coastline(target_bearing, seed)
  /\ last' = NoTick
  /\ UNCHANGED << target_bearing, target_range, target_epr, aspect_angle,
                  target_length, target_width, target_number, trailVars,
                  moveVars, showVars, activeVars >>
  /\ draw_radar_display

\* start_movement without the test of target_moving
start_movement_always(fault) ==
  /\ UNCHANGED << target_epr, aspect_angle, target_length, target_width,
                  target_number, history_maxlen, trail_length,
                  coastline_points, showVars, target_course, target_speed,
                  simulation_interval >>
  /\ target_course_current' = target_course
  /\ target_speed_current' = target_speed
  /\ RunTick(TRUE, "started", timers, fault, FALSE)

start_movement(fault) ==
  /\ UNCHANGED << target_epr, aspect_angle, target_length, target_width,
                  target_number, history_maxlen, trail_length,
                  coastline_points, showVars, target_course, target_speed,
                  simulation_interval >>
  /\ IF ~target_moving
     THEN /\ target_course_current' = target_course
          /\ target_speed_current' = target_speed
          /\ RunTick(TRUE, "started", timers, fault, FALSE)
     ELSE /\ fault = "none"
          /\ last' = NoTick
          /\ UNCHANGED << target_bearing, target_range, target_history,
                          target_moving, info_var, timers, blip, ticks,
                          activeVars, frame >>

stop_movement ==
  /\ target_moving' = FALSE
  /\ info_var' = "stopped"
  /\ timers' = MarkStale(timers)
  /\ last' = NoTick
  /\ UNCHANGED << target_bearing, target_range, target_epr, aspect_angle,
                  target_length, target_width, target_number, trailVars,
                  coastline_points, showVars, activeVars, target_course,
                  target_speed, simulation_interval, blip, ticks, frame >>

\* the Tk timer fires the oldest pending callback, which is simulate_movement
TimerFire(fault) ==
  /\ timers # << >>
  /\ ~target_moving => fault = "none"
  /\ UNCHANGED << target_epr, aspect_angle, target_length, target_width,
                  target_number, history_maxlen, trail_length,
                  coastline_points, showVars, activeVars, target_course,
                  target_speed, simulation_interval >>
  /\ RunTick(target_moving, info_var, Tail(timers), fault, Head(timers))

\* ------------------------------------------------------- specifications
\* The exploration keeps the trail within MaxTrail entries (every step from
\* a full deque is explored), the timer within MaxPending callbacks and the
\* number of tick bodies within the budget of the specification.
HistBound == Len(target_history') <= MaxTrail
             \/ Len(target_history) >= history_maxlen
StartBound(budget) == target_moving \/ (ticks < budget /\ Len(timers) < MaxPending)
FireBound(budget) == ~target_moving \/ ticks < budget

\* the trail under edits, random targets and movement
Next ==
  \/ \E v \in BearingEdits : on_bearing_change(v) /\ HistBound
  \/ \E v \in RangeEdits : on_range_change(v) /\ HistBound
  \/ \E v \in EprEdits : on_epr_change(v) /\ HistBound
  \/ \E v \in TrailEdits : on_trail_length_change(v)
  \/ \E q \in RandomUnit : random_target(q, q) /\ HistBound
  \/ \E f \in FaultPoints : StartBound(MaxTicks) /\ start_movement(f) /\ HistBound
  \/ stop_movement
  \/ \E f \in FaultPoints : FireBound(MaxTicks) /\ TimerFire(f) /\ HistBound

Spec == Init /\ [][Next]_vars

\* the movement state machine and the timer
NextMove ==
  \/ \E v \in CourseEdits : on_course_change(v)
  \/ \E v \in SpeedEdits : on_speed_change(v)
  \/ \E f \in FaultPoints : StartBound(MaxMoveTicks) /\ start_movement(f) /\ HistBound
  \/ stop_movement
  \/ \E f \in FaultPoints : FireBound(MaxMoveTicks) /\ TimerFire(f) /\ HistBound

SpecMove == Init /\ [][NextMove]_vars

\* ---------------------------------------------------------- one tick
\* simulate_movement applied to a moving target placed anywhere on the scope
KinBearings == {0, 40, 90, 180, 270}
KinRanges == {Mile, 5 * Mile, range_scale - 2 * Mile,
              range_scale - Mile \div 2 - 1, range_scale - (4 * Mile) \div 10}
KinCourses == {0, 45, 90, 180, 270}
KinSpeeds == {0, 10, 30, 3600}
KinIntervals == {500, 1000}

InitKin ==
  \E b \in KinBearings, r \in KinRanges, c \in KinCourses,
     s \in KinSpeeds, i \in KinIntervals :
    /\ target_bearing = b
    /\ target_range = r
    /\ aspect_angle = 70
    /\ target_epr = 100
    /\ target_length = 30
    /\ target_width = 7
    /\ target_number = 1
    /\ target_history = << >>
    /\ history_maxlen = InitTrailLength
    /\ trail_length = InitTrailLength
    /\ coastline_points = generate_coastline(40, 0)
    /\ target_moving = TRUE
    /\ target_course = c
    /\ target_speed = s
    /\ simulation_interval = i
    /\ info_var = "started"
    /\ timers = << FALSE >>
    /\ blip = calculate_target_brightness(100, 70, r)
    /\ ticks = 0
    /\ last = NoTick
    /\ show_coastline = TRUE
    /\ show_trails = TRUE
    /\ show_target_form = FALSE
    /\ clutter_intensity = 45
    /\ target_course_current = c
    /\ target_speed_current = s
    /\ frame = Render(TRUE, TRUE, FALSE, coastline_points, << >>,
                      << b, r >>, << 1, b, r, c, s >>)

NextKin ==
  \/ \E f \in FaultPoints : StartBound(MaxTicks) /\ start_movement(f) /\ HistBound
  \/ stop_movement
  \/ \E f \in FaultPoints : FireBound(MaxTicks) /\ TimerFire(f) /\ HistBound

SpecKin == InitKin /\ [][NextKin]_vars

\* ------------------------------------------------------ the target mark
\* calculate_target_brightness over the ranges of the sliders
BrightEprs == {10, 100, 500, 1000, 1200}
BrightAspects == {0, 10, 30, 70, 90}
BrightRanges == {Mile, 8 * Mile, 15 * Mile, range_scale - 2 * Mile}

NextBright ==
  \/ \E v \in BrightEprs : on_epr_change(v) /\ HistBound
  \/ \E v \in BrightAspects : on_aspect_change(v)
  \/ \E v \in BrightRanges : on_range_change(v) /\ HistBound
  \/ on_trail_length_change(0)

SpecBright == Init /\ [][NextBright]_vars

\* ------------------------------------------------------- the coastline
InitCoast == \E s \in Seeds : Constructed(s)

NextCoast ==
  \/ \E s \in Seeds : new_coastline(s)
  \/ \E v \in BearingEdits : on_bearing_change(v) /\ HistBound
  \/ \E v \in TrailEdits : on_trail_length_change(v)

SpecCoast == InitCoast /\ [][NextCoast]_vars

\* ---------------------------------------------------------- the canvas
\* renders under the switches, position edits, trail lengths and a tick
RenderTrails == 0..MaxDrawn
RenderBound == Len(target_history') <= MaxDrawn
               \/ Len(target_history) >= history_maxlen

NextRender ==
  \/ \E on \in BOOLEAN : on_coastline_switch_change(on)
  \/ \E on \in BOOLEAN : on_trails_switch_change(on)
  \/ \E on \in BOOLEAN : on_form_switch_change(on)
  \/ update_display
  \/ \E v \in BearingEdits : on_bearing_change(v) /\ RenderBound
  \/ \E v \in RangeEdits : on_range_change(v) /\ RenderBound
  \/ \E v \in RenderTrails : on_trail_length_change(v)
  \/ StartBound(MaxTicks) /\ start_movement("none") /\ RenderBound

SpecRender == Init /\ [][NextRender]_vars

\* ------------------------------------------------ trails of two fixes
\* every caller of add_to_history on a trail that holds up to MaxDrawn entries
NextTrail ==
  \/ \E v \in BearingEdits : on_bearing_change(v) /\ RenderBound
  \/ \E v \in RangeEdits : on_range_change(v) /\ RenderBound
  \/ \E v \in EprEdits : on_epr_change(v) /\ RenderBound
  \/ \E q \in RandomUnit : random_target(q, q) /\ RenderBound
  \/ \E v \in RenderTrails : on_trail_length_change(v)
  \/ StartBound(MaxTicks) /\ start_movement("none") /\ RenderBound

SpecTrail == Init /\ [][NextTrail]_vars

\* ------------------------------------------------- through the centre
\* the panel is set, with the range slider at its lower end, and the target
\* then runs on its course with no further command
PanelSet == ticks = 0 /\ ~target_moving /\ timers = << >>

NextCentre ==
  \/ PanelSet /\ on_range_change(Mile)
  \/ PanelSet /\ on_bearing_change(0)
  \/ PanelSet /\ on_course_change(180)
  \/ PanelSet /\ on_speed_change(30)
  \/ StartBound(MaxCentreTicks) /\ start_movement("none")
  \/ FireBound(MaxCentreTicks) /\ TimerFire("none")

SpecCentre == Init /\ [][NextCentre]_vars

\* ------------------------------------------------ the whole panel
\* every command of the interface: the ten sliders, the three switches, a
\* resize, both random buttons, the coastline button, start, stop and the
\* timer.  A command is given before the target has moved and while fewer
\* than MaxEdited controls are off their start-up setting; a resize, stop
\* and the timer come at any time.
Dev(b) == IF b THEN 1 ELSE 0
Edited ==
  Dev(target_bearing # 40) + Dev(target_range # 8 * Mile)
  + Dev(aspect_angle # 70) + Dev(target_epr # 100)
  + Dev(target_length # 30) + Dev(target_width # 7)
  + Dev(clutter_intensity # 45) + Dev(trail_length # InitTrailLength)
  + Dev(target_course # 45) + Dev(target_speed # 10)
  + Dev(~show_coastline) + Dev(~show_trails) + Dev(show_target_form)
PanelBound == Edited < MaxEdited /\ ticks = 0
PanelSeeds == {MaxSeed}

NextPanel ==
  \/ PanelBound /\ \E v \in BearingEdits : on_bearing_change(v) /\ HistBound
  \/ PanelBound /\ \E v \in RangeEdits : on_range_change(v) /\ HistBound
  \/ PanelBound /\ \E v \in AspectEdits : on_aspect_change(v)
  \/ PanelBound /\ \E v \in EprEdits : on_epr_change(v) /\ HistBound
  \/ PanelBound /\ \E v \in LengthEdits : on_length_change(v)
  \/ PanelBound /\ \E v \in WidthEdits : on_width_change(v)
  \/ PanelBound /\ \E v \in ClutterEdits : on_clutter_change(v)
  \/ PanelBound /\ \E v \in TrailEdits : on_trail_length_change(v)
  \/ PanelBound /\ \E v \in CourseEdits : on_course_change(v)
  \/ PanelBound /\ \E v \in SpeedEdits : on_speed_change(v)
  \/ PanelBound /\ \E on \in BOOLEAN : on_coastline_switch_change(on)
  \/ PanelBound /\ \E on \in BOOLEAN : on_trails_switch_change(on)
  \/ PanelBound /\ \E on \in BOOLEAN : on_form_switch_change(on)
  \/ update_display
  \/ PanelBound /\ \E q \in RandomUnit : random_target(q, q) /\ HistBound
  \/ PanelBound /\ \E q \in RandomUnit : random_clutter(q)
  \/ PanelBound /\ \E s \in PanelSeeds : new_coastline(s)
  \/ PanelBound /\ StartBound(MaxTicks) /\ start_movement("none") /\ HistBound
  \/ stop_movement
  \/ FireBound(MaxTicks) /\ TimerFire("none") /\ HistBound

SpecPanel == Init /\ [][NextPanel]_vars

\* ------------------------------------------------- to the scope edge
\* the panel is set, start is pressed once and the timer runs the ticks with
\* no further command and no raising call.  The position is kept in whole
\* units and degrees, so the starts are those whose step the state can
\* resolve: a long step from anywhere on any course, and the largest step of
\* the speed slider along the bearing line from the upper end of the range
\* slider.
ExitBearings == {0, 40, 90, 270}
ExitRanges == {Mile, 8 * Mile, range_scale - 2 * Mile}
ExitCourses == {0, 45, 180, 270}
ExitSpeeds == {0, 3600}
SliderSpeed == 30

ExitStarts ==
  { << b, r, c, v >> : b \in ExitBearings, r \in ExitRanges,
                       c \in ExitCourses, v \in ExitSpeeds }
  \cup { << b, range_scale - 2 * Mile, b, SliderSpeed >> : b \in ExitBearings }

InitExit ==
  \E st \in ExitStarts :
    /\ target_bearing = st[1]
    /\ target_range = st[2]
    /\ aspect_angle = 70
    /\ target_epr = 100
    /\ target_length = 30
    /\ target_width = 7
    /\ target_number = 1
    /\ target_history = << >>
    /\ history_maxlen = InitTrailLength
    /\ trail_length = InitTrailLength
    /\ coastline_points = generate_coastline(40, 0)
    /\ target_moving = FALSE
    /\ target_course = st[3]
    /\ target_speed = st[4]
    /\ simulation_interval = 500
    /\ info_var = "ready"
    /\ timers = << >>
    /\ blip = calculate_target_brightness(100, 70, st[2])
    /\ ticks = 0
    /\ last = NoTick
    /\ show_coastline = TRUE
    /\ show_trails = TRUE
    /\ show_target_form = FALSE
    /\ clutter_intensity = 45
    /\ target_course_current = st[3]
    /\ target_speed_current = st[4]
    /\ frame = Render(TRUE, TRUE, FALSE, coastline_points, << >>,
                      << st[1], st[2] >>,
                      << 1, st[1], st[2], st[3], st[4] >>)

ExitTick == FireBound(MaxExitTicks) /\ TimerFire("none")

NextExit ==
  \/ PanelSet /\ start_movement("none")
  \/ ExitTick

\* a callback is due: ExitTick can be taken
TimerDue == timers # << >> /\ FireBound(MaxExitTicks)

\* the Tk main loop runs a callback that is due: weak fairness of ExitTick,
\* with the enabling condition written as TimerDue
SpecExit ==
  /\ InitExit /\ [][NextExit]_vars
  /\ ([]<>(~TimerDue) \/ []<><< ExitTick >>_vars)

\* ------------------------------------------------------------ properties
\* C1: the history trail never holds more than trail_length entries; with
\* trail_length = 0 it stays empty under every operation.
TrailBounded == Len(target_history) <= trail_length

\* a tick has put its fix into a trail that is at the capacity set by the slider
TrailAtCapacity ==
  /\ trail_length = 1
  /\ Len(target_history) = 1
  /\ last.cause = "commit"
  /\ target_history[1][2] = target_range
  /\ target_range > 8 * Mile + DeadbandRange

\* C2: an operation that calls add_to_history on a non-empty trail leaves the
\* trail unchanged whenever the new fix is within 1.0 degree of bearing and
\* 0.1 nm of range of the newest entry, whatever the EPR is.
DeadbandKeepsTrail ==
  [][ ( /\ target_history # << >>
        /\ ~(\E v \in TrailEdits : on_trail_length_change(v))
        /\ Abs(target_bearing' - target_history[1][1]) <= 1
        /\ Abs(target_range' - target_history[1][2]) <= Mile \div 10 )
      => target_history' = target_history ]_vars

\* the fix differs from the newest entry in bearing, range and EPR, sits on
\* the edge of the deadband, and the trail still holds that one entry
FixOnDeadbandEdge ==
  /\ Len(target_history) = 1
  /\ Abs(target_bearing - target_history[1][1]) = 1
  /\ Abs(target_range - target_history[1][2]) = Mile \div 10
  /\ target_epr # target_history[1][3]

\* C3: after a stop, a callback that was scheduled before the stop does not
\* schedule another tick when it fires, for every interleaving of start, stop
\* and the timer.
StaleTickNeverRearms == ~(last.op = "tick" /\ last.stale /\ last.armed)

\* C4: a tick whose computed range is at least range_scale - 0.5 ends the
\* movement, commits neither range nor bearing, appends nothing to the trail
\* and schedules no tick; so does a tick of a target at range_scale - 0.4
\* that moves outward.
ScopeExitStops ==
  [][ ( /\ ticks' = ticks + 1
        /\ LET d == (((target_speed * simulation_interval) \div 1000) * Mile) \div 3600
           IN \/ new_range(target_bearing, target_range, target_course, d)
                   >= range_scale - Mile \div 2
              \/ /\ target_range = range_scale - (4 * Mile) \div 10
                 /\ target_course = target_bearing
              \/ /\ target_course = target_bearing
                 /\ target_bearing \in {0, 90, 180, 270}
                 /\ target_range + d >= range_scale - Mile \div 2 )
      => /\ ~target_moving'
         /\ target_range' = target_range
         /\ target_bearing' = target_bearing
         /\ target_history' = target_history
         /\ ~last'.armed
         /\ \A i \in 1..Len(timers') : timers'[i] ]_vars

\* the target at range_scale - 0.4 on an outward course after its tick
StoppedAtScopeEdge ==
  /\ last.op = "tick"
  /\ last.cause = "exit"
  /\ ticks = 1
  /\ target_range = range_scale - (4 * Mile) \div 10
  /\ target_course = target_bearing
  /\ target_speed > 0
  /\ ~target_moving

\* C5: after a tick that ends the movement itself, the status line names the
\* cause: the left-scope message after a scope exit, the error message after
\* an exception.
StatusNamesCause ==
  /\ last.cause = "exit" => info_var = "left_scope"
  /\ last.cause = "fault" => info_var = "error"

\* C6: a tick in which a call raises leaves the state Stopped and has
\* scheduled no next tick; the exception is handled inside the tick.
FaultStops ==
  last.cause = "fault" =>
    /\ ~target_moving
    /\ ~last.armed
    /\ \A i \in 1..Len(timers) : timers[i]

\* a call raised after the tick had committed the new position
FaultAfterCommit ==
  /\ last.op = "tick"
  /\ last.cause = "fault"
  /\ ticks >= 1
  /\ target_range # 8 * Mile

\* C7: a tick moves the target by speed * interval / 1000 / 3600 nm along its
\* course, bearings and courses being compass angles: a radial course changes
\* the range by exactly that distance and keeps the bearing, a course of 90
\* (270) from bearing 0 turns the bearing clockwise (anticlockwise) once the
\* step is more than a degree wide, and from bearing 0, range 5,
\* course 0, speed 3600, interval 1000 the tick gives range 6, bearing 0.
TickAdvance ==
  [][ (last'.op = "tick" /\ last'.cause = "commit")
      => LET d == (((target_speed * simulation_interval) \div 1000) * Mile) \div 3600
             cardinal == target_bearing \in {0, 90, 180, 270}
         IN /\ (cardinal /\ target_course = target_bearing)
                 => (target_range' = target_range + d
                     /\ target_bearing' = target_bearing)
            /\ (cardinal /\ target_course = (target_bearing + 180) % 360
                         /\ target_range > d)
                 => (target_range' = target_range - d
                     /\ target_bearing' = target_bearing)
            /\ (target_bearing = 0 /\ target_course = 90
                                   /\ d * 50 > target_range)
                 => target_bearing' \in 1..90
            /\ (target_bearing = 0 /\ target_course = 270
                                   /\ d * 50 > target_range)
                 => target_bearing' \in 270..359
            /\ (target_bearing = 0 /\ target_range = 5 * Mile
                /\ target_course = 0 /\ target_speed = 3600
                /\ simulation_interval = 1000)
                 => (target_range' = 6 * Mile /\ target_bearing' = 0) ]_vars

\* the tick of the worked example has run
OneMileNorth ==
  /\ last.op = "tick"
  /\ last.cause = "commit"
  /\ ticks = 1
  /\ target_bearing = 0
  /\ target_range = 6 * Mile
  /\ target_course = 0
  /\ target_speed = 3600
  /\ simulation_interval = 1000

\* C8: a coastline has exactly 40 vertices and every vertex range lies in
\* [0.5 * range_scale, range_scale - 1.0].
CoastlineShape ==
  /\ Len(coastline_points) = 40
  /\ \A k \in 1..Len(coastline_points) :
       /\ coastline_points[k][2] >= range_scale \div 2
       /\ coastline_points[k][2] <= range_scale - Mile

\* a coastline regenerated at another bearing, with vertices at different ranges
CoastlineRegenerated ==
  /\ target_bearing = 360
  /\ \E s \in Seeds : /\ s > 0
                      /\ coastline_points = generate_coastline(360, s)
  /\ coastline_points[1][2] # coastline_points[20][2]

\* C9: the brightness of the target mark lies in [0.05, 1.0] and does not
\* decrease when the EPR grows with aspect and range fixed.
BrightnessLaw ==
  /\ blip >= TrigScale \div 20
  /\ blip <= TrigScale
  /\ \A e1 \in BrightEprs : \A e2 \in BrightEprs :
       e1 <= e2 => calculate_target_brightness(e1, aspect_angle, target_range)
                   <= calculate_target_brightness(e2, aspect_angle, target_range)

\* the mark of the largest EPR: brighter than that of the smallest, unclamped
BrighterWithEpr ==
  /\ target_epr = 1200
  /\ blip > calculate_target_brightness(10, aspect_angle, target_range)
  /\ blip < TrigScale
  /\ blip > TrigScale \div 20

\* C10: after random_target the EPR lies in [0.1, 10.0], the length in
\* [5, 200], the width in [2, 50], the aspect in [0, 90] and the target
\* number in 1..99.
RandomTargetRanges ==
  [][ (\E q \in RandomUnit : random_target(q, q))
      => /\ target_epr' >= 10 /\ target_epr' <= 1000
         /\ target_length' >= 5 /\ target_length' <= 200
         /\ target_width' >= 2 /\ target_width' <= 50
         /\ aspect_angle' >= 0 /\ aspect_angle' <= 90
         /\ target_number' \in 1..99 ]_vars

\* a random target drawn at the top of every range
RandomTargetDrawn ==
  /\ target_number = RandInt(1, 99, DrawQ - 1)
  /\ target_epr = Uniform(10, 1000, DrawQ - 1)
  /\ target_length = Uniform(5, 200, DrawQ - 1)
  /\ target_number > 1

\* C11: every render draws its layers in the order grid, range rings, bearing
\* marks, clutter, coastline (only if enabled), history trail (only if
\* enabled), target (always), cursor and data block (only if enabled): no
\* item of a layer is drawn before an item of an earlier layer.
RenderOrder ==
  LET rank == [grid |-> 1, range_rings |-> 2, bearing_marks |-> 3,
               clutter |-> 4, coastline |-> 5, trail_line |-> 6,
               trail_point |-> 6, target |-> 7, cursor |-> 8, form |-> 8]
      count(l) == Cardinality({i \in 1..Len(frame) : frame[i].layer = l})
  IN /\ \A i \in 1..Len(frame) : \A j \in i..Len(frame) :
          rank[frame[i].layer] <= rank[frame[j].layer]
     /\ \A l \in {"grid", "range_rings", "bearing_marks", "clutter", "target"} :
          count(l) = 1
     /\ count("coastline") > 0 => show_coastline
     /\ count("trail_line") + count("trail_point") > 0 => show_trails
     /\ count("cursor") + count("form") > 0 => show_target_form

\* a canvas on which every optional layer is drawn
AllLayersDrawn ==
  /\ \E i \in 1..Len(frame) : frame[i].layer = "coastline"
  /\ \E i \in 1..Len(frame) : frame[i].layer = "trail_point"
  /\ \E i \in 1..Len(frame) : frame[i].layer = "form"
  /\ frame[Len(frame)].layer = "form"

\* C12: in every reachable state the target bearing is at least 0 and less
\* than 360, under bearing edits, random targets and ticks.
BearingInRange == target_bearing >= 0 /\ target_bearing < 360

TrailSpaced ==
  \A i \in 1..(Len(target_history) - 1) :
    \/ Abs(target_history[i][1] - target_history[i + 1][1]) > 1
    \/ Abs(target_history[i][2] - target_history[i + 1][2]) > Mile \div 10

\* two entries on the same bearing whose ranges differ by one unit more than
\* the deadband
TrailJustSpaced ==
  /\ Len(target_history) = 2
  /\ target_history[1][1] = target_history[2][1]
  /\ Abs(target_history[1][2] - target_history[2][2]) = Mile \div 10 + 1

\* C15: a fix that add_to_history inserts becomes index 0 of the trail and the
\* earlier entries follow in their previous order; on a trail that already
\* holds trail_length entries the oldest entry, and no other, is removed.
InsertNewestFirst ==
  [][ (target_history' # target_history
       /\ ~(\E v \in RenderTrails : on_trail_length_change(v)))
      => /\ target_history'[1] = << target_bearing', target_range', target_epr' >>
         /\ Len(target_history') = Min(Len(target_history) + 1, trail_length)
         /\ \A i \in 2..Len(target_history') :
              target_history'[i] = target_history[i - 1] ]_vars

\* a trail at its capacity of two: the current fix in front of an older one
\* that was taken at another bearing
NewestInFront ==
  /\ trail_length = 2
  /\ Len(target_history) = 2
  /\ target_history[1] = << target_bearing, target_range, target_epr >>
  /\ target_history[1][1] = 0
  /\ target_history[2][1] = 360

\* C16: a trail-length change to n leaves the trail empty and bounded by n,
\* for every n, also when n equals or exceeds the bound before: no earlier
\* fix survives.
TrailLengthClears ==
  [][ \A n \in RenderTrails :
        on_trail_length_change(n)
        => /\ target_history' = << >>
           /\ trail_length' = n
           /\ history_maxlen' = n ]_vars

\* the trail just emptied by a change to 2 while the canvas still shows the
\* target where edits had put it
TrailCleared ==
  /\ trail_length = 2
  /\ history_maxlen = 2
  /\ target_history = << >>
  /\ target_bearing = 360
  /\ target_range = 8 * Mile + Mile \div 10
  /\ target_epr = 1200

\* C17: a timer callback that fires while the state is Stopped changes
\* neither range, bearing, trail, status nor state and schedules no tick; a
\* tick is scheduled only by a tick that ends in state Moving.
StoppedTickIdle ==
  [][ /\ (~target_moving /\ \E f \in FaultPoints : TimerFire(f))
        => /\ UNCHANGED << target_range, target_bearing, target_history,
                           info_var, target_moving >>
           /\ timers' = Tail(timers)
           /\ ~last'.armed
      /\ (Len(timers') > Len(timers) \/ last'.armed)
        => (last'.op = "tick" /\ target_moving') ]_vars

\* the callback left pending by a stop has fired and found the state Stopped
IdleTickFired ==
  /\ last.op = "tick"
  /\ last.cause = "idle"
  /\ last.stale
  /\ ~target_moving
  /\ info_var = "stopped"
  /\ timers = << >>

\* C18: within one render the points of the history trail are drawn oldest
\* first and newest last, so that the newest fix lies on top of the older ones.
TrailOldestFirst ==
  LET isPoint(it) == it.layer = "trail_point"
      pts == SelectSeq(frame, isPoint)
  IN \A i \in 1..Len(pts) :
       /\ Len(pts) = Len(target_history)
       /\ pts[i].shows = target_history[Len(pts) + 1 - i]

\* what draw_radar_display puts on the canvas in the current state
Canvas ==
  Render(show_coastline, show_trails, show_target_form, coastline_points,
         target_history, << target_bearing, target_range >>,
         << target_number, target_bearing, target_range,
            target_course_current, target_speed_current >>)

SetterStep ==
  \/ \E v \in BearingEdits : on_bearing_change(v)
  \/ \E v \in RangeEdits : on_range_change(v)
  \/ \E v \in AspectEdits : on_aspect_change(v)
  \/ \E v \in EprEdits : on_epr_change(v)
  \/ \E v \in LengthEdits : on_length_change(v)
  \/ \E v \in WidthEdits : on_width_change(v)
  \/ \E v \in ClutterEdits : on_clutter_change(v)
  \/ \E v \in TrailEdits : on_trail_length_change(v)
  \/ \E v \in CourseEdits : on_course_change(v)
  \/ \E v \in SpeedEdits : on_speed_change(v)

\* C19: every setter of the interface (bearing, range, aspect, EPR, length,
\* width, clutter intensity, trail length, course, speed) renders before it
\* returns: after the step the canvas is the render of the new state.
SettersRender == [][SetterStep => frame' = Canvas']_vars

\* C20: the coastline polyline is written only by new_coastline after the
\* session has started: renders, setters, switches, both random buttons,
\* start, stop and ticks leave coastline_points as it was.
CoastlineKept ==
  [][(\E s \in PanelSeeds : new_coastline(s)) \/ UNCHANGED coastline_points]_vars

\* a regenerated coastline that has since gone through a tick with the data
\* block on
CoastlineSurvives ==
  /\ coastline_points # generate_coastline(40, 0)
  /\ last.op = "tick"
  /\ show_target_form
  /\ ticks > 0

\* C21: at most one simulate_movement callback is pending on the timer at
\* any time, under every sequence of start_movement, stop_movement and
\* timer firings.
OnePendingTick == Len(timers) <= 1

\* C22: start_movement in state Moving runs no tick, schedules nothing and
\* leaves position, trail, active course and speed, status and canvas as
\* they were; a start from Stopped takes the course and speed of the panel,
\* runs the first tick in the same step and arms the timer if still Moving.
StartWhileMovingIdle ==
  [][ /\ (target_moving /\ \E f \in FaultPoints : start_movement(f))
        => /\ UNCHANGED << target_bearing, target_range, target_history,
                           target_moving, info_var, timers, ticks,
                           activeVars, frame >>
           /\ last'.op # "tick"
      /\ (~target_moving /\ start_movement("none"))
        => /\ last'.op = "tick"
           /\ ticks' = ticks + 1
           /\ target_course_current' = target_course
           /\ target_speed_current' = target_speed
           /\ last'.armed <=> target_moving'
           /\ last'.armed => timers' = Append(timers, FALSE) ]_vars

\* start pressed again after the target has moved and while it is Moving,
\* the course and speed sliders never touched
StartedWhileMoving ==
  /\ target_moving
  /\ last = NoTick
  /\ ticks > 0
  /\ Len(timers) = 1
  /\ target_course = 45
  /\ target_speed = 10

\* C23: once started with a speed above 0 and left alone, the tick loop
\* finds the target at the scope edge and ends Stopped with no callback
\* pending; with speed 0 a run of simulate_movement never leaves Moving.
RunsToScopeEdge ==
  /\ (target_moving /\ target_speed > 0)
       ~> (~target_moving /\ timers = << >> /\ last.cause = "exit")
  /\ [][(target_moving /\ target_speed = 0) => target_moving']_vars

\* the run at slider speed has ended at the scope edge
LeftScopeAtSliderSpeed ==
  /\ target_speed = SliderSpeed
  /\ ~target_moving
  /\ timers = << >>
  /\ last.op = "tick"
  /\ last.cause = "exit"
  /\ ticks > 1
  /\ target_range + distance_moved(target_speed, simulation_interval)
       >= range_scale - Mile \div 2
====
